---- MODULE Spec2Model ----
EXTENDS Integers, Sequences, FiniteSets, TLC

\* Model of package darksky (src/darksky.go): the ForecastRequest builder,
\* URL construction, Get with its HTTP outcomes, fromJSON and WindDirection.

\* ---------------------------------------------------------------------
\* Program constants
\* ---------------------------------------------------------------------

DefaultBaseURL == "https://api.darksky.net/forecast"

English == "en"
Spanish == "es"
German == "de"

US == "us"
SI == "si"
UK2 == "uk2"

APICallsHeader == "X-Forecast-API-Calls"

\* ---------------------------------------------------------------------
\* Bounds of the model
\* ---------------------------------------------------------------------

Keys == {"foo"}
Lats == {41}
Lngs == {-87}
Times == {-1, 0, 12345}
Langs == {English, Spanish, German}
UnitsSet == {US, SI, UK2}
BaseURLs == {DefaultBaseURL, "http://127.0.0.1:8080", "http://proxy/fc?lang=fr", "://bad"}

\* ---------------------------------------------------------------------
\* net/url as used by ForecastRequest.URL
\* ---------------------------------------------------------------------

\* url.Parse on the base URLs the model uses: scheme, host, path and the
\* parsed query (a sequence of key/value pairs), or a parse error.
ParseURL(s) ==
  CASE s = DefaultBaseURL ->
         [ok |-> TRUE, scheme |-> "https", host |-> "api.darksky.net",
          path |-> "/forecast", query |-> << >>]
    [] s = "http://127.0.0.1:8080" ->
         [ok |-> TRUE, scheme |-> "http", host |-> "127.0.0.1:8080",
          path |-> "", query |-> << >>]
    [] s = "http://proxy/fc?lang=fr" ->
         [ok |-> TRUE, scheme |-> "http", host |-> "proxy",
          path |-> "/fc", query |-> << <<"lang", "fr">> >>]
    [] OTHER ->
         [ok |-> FALSE, err |-> "missing protocol scheme"]

\* url.Values.Add: appends a value for the key.
ValuesAdd(v, k, x) == Append(v, <<k, x>>)

\* Byte order of the query keys the model uses ("lang" < "units").
QueryKeyOrder == <<"lang", "units">>
KeyRank(k) == CHOOSE i \in 1..Len(QueryKeyOrder) : QueryKeyOrder[i] = k
KeyLess(a, b) == KeyRank(a) < KeyRank(b)

\* url.Values.Encode: pairs sorted by key; values of one key keep their order.
RECURSIVE InsertSorted(_, _)
InsertSorted(p, s) ==
  IF s = << >> THEN <<p>>
  ELSE IF KeyLess(p[1], Head(s)[1])
       THEN <<p>> \o s
       ELSE <<Head(s)>> \o InsertSorted(p, Tail(s))

RECURSIVE Encode(_)
Encode(v) ==
  IF v = << >> THEN << >>
  ELSE InsertSorted(v[Len(v)], Encode(SubSeq(v, 1, Len(v) - 1)))

\* Default %v formatting of float64 coordinates (integral values here) and
\* strconv.FormatInt(t, 10).
FormatFloat(x) == ToString(x)
FormatInt(t) == ToString(t)

\* ---------------------------------------------------------------------
\* ForecastRequest
\* ---------------------------------------------------------------------

MakeRequest(key, latitude, longitude) ==
  [Key |-> key, Lat |-> latitude, Lng |-> longitude, Time |-> -1,
   Lang |-> English, Units |-> US, ExtendHourly |-> FALSE,
   Exclude |-> << >>, baseURL |-> DefaultBaseURL]

\* A URL() that appends the time whenever it is non-zero.
URLTimeNonZero(f) ==
  LET u == ParseURL(f.baseURL) IN
  IF ~u.ok THEN [ok |-> FALSE, err |-> u.err]
  ELSE
    LET v == ValuesAdd(ValuesAdd(u.query, "lang", f.Lang), "units", f.Units)
        p1 == <<u.path, "/", f.Key, "/", FormatFloat(f.Lat), ",", FormatFloat(f.Lng)>>
        p2 == IF f.Time /= 0 THEN p1 \o <<",", FormatInt(f.Time)>> ELSE p1
    IN [ok |-> TRUE, scheme |-> u.scheme, host |-> u.host,
        path |-> p2, query |-> Encode(v)]

\* ForecastRequest.URL: a result with the path as its literal pieces and the
\* query as the encoded key/value pairs, or the url.Parse error.
URL(f) ==
  LET u == ParseURL(f.baseURL) IN
  IF ~u.ok THEN [ok |-> FALSE, err |-> u.err]
  ELSE
    LET v == ValuesAdd(ValuesAdd(u.query, "lang", f.Lang), "units", f.Units)
        p1 == <<u.path, "/", f.Key, "/", FormatFloat(f.Lat), ",", FormatFloat(f.Lng)>>
        p2 == IF f.Time > 0 THEN p1 \o <<",", FormatInt(f.Time)>> ELSE p1
    IN [ok |-> TRUE, scheme |-> u.scheme, host |-> u.host,
        path |-> p2, query |-> Encode(v)]

\* ---------------------------------------------------------------------
\* encoding/json values and fromJSON
\* ---------------------------------------------------------------------

\* A JSON value: number (integral), string, boolean, array (a sequence),
\* object (its members as a sequence of <<key, value>> in document order) or
\* null.
Num(n) == [t |-> "num", n |-> n]
Str(x) == [t |-> "str", s |-> x]
Bool(x) == [t |-> "bool", b |-> x]
Arr(x) == [t |-> "arr", a |-> x]
Obj(x) == [t |-> "obj", o |-> x]
Null == [t |-> "null"]
EmptyObj == << >>

\* Decoded values carry whether json.Unmarshal recorded an error.
Dec(ok, v) == [ok |-> ok, v |-> v]

\* The json tags of the decoded structs: <<tag, Go field, Go type>>.
DataPointTags ==
  <<<<"time", "Time", "int">>,
   <<"summary", "Summary", "string">>,
   <<"icon", "Icon", "string">>,
   <<"sunriseTime", "SunriseTime", "int">>,
   <<"sunsetTime", "SunsetTime", "int">>,
   <<"precipIntensity", "PrecipIntensity", "float">>,
   <<"precipIntensityMax", "PrecipIntensityMax", "float">>,
   <<"precipIntensityMaxTime", "PrecipIntensityMaxTime", "int">>,
   <<"precipProbability", "PrecipProbability", "float">>,
   <<"precipType", "PrecipType", "string">>,
   <<"precipAccumulation", "PrecipAccumulation", "float">>,
   <<"temperature", "Temperature", "float">>,
   <<"temperatureMin", "TemperatureMin", "float">>,
   <<"temperatureMinTime", "TemperatureMinTime", "int">>,
   <<"temperatureMax", "TemperatureMax", "float">>,
   <<"temperatureMaxTime", "TemperatureMaxTime", "int">>,
   <<"apparentTemperature", "ApparentTemperature", "float">>,
   <<"dewPoint", "DewPoint", "float">>,
   <<"windSpeed", "WindSpeed", "float">>,
   <<"windBearing", "WindBearing", "float">>,
   <<"cloudCover", "CloudCover", "float">>,
   <<"humidity", "Humidity", "float">>,
   <<"pressure", "Pressure", "float">>,
   <<"visibility", "Visibility", "float">>,
   <<"ozone", "Ozone", "float">>,
   <<"moonPhase", "MoonPhase", "float">>>>
DataBlockTags ==
  <<<<"summary", "Summary", "string">>,
   <<"icon", "Icon", "string">>,
   <<"data", "Data", "[]DataPoint">>>>
AlertTags ==
  <<<<"title", "Title", "string">>,
   <<"description", "Description", "string">>,
   <<"expires", "Expires", "int">>,
   <<"uri", "URI", "string">>>>
FlagsTags ==
  <<<<"darksky-unavailable", "DarkSkyUnavailable", "string">>,
   <<"darksky-stations", "DarkSkyStations", "[]string">>,
   <<"datapoint-stations", "DataPointStations", "[]string">>,
   <<"isds-stations", "ISDStations", "[]string">>,
   <<"lamp-stations", "LAMPStations", "[]string">>,
   <<"metars-stations", "METARStations", "[]string">>,
   <<"metnol-license", "METNOLicense", "string">>,
   <<"sources", "Sources", "[]string">>,
   <<"units", "Units", "string">>>>
ForecastTags ==
  <<<<"latitude", "Latitude", "float">>,
   <<"longitude", "Longitude", "float">>,
   <<"timezone", "Timezone", "string">>,
   <<"offset", "Offset", "int">>,
   <<"currently", "Currently", "DataPoint">>,
   <<"minutely", "Minutely", "DataBlock">>,
   <<"hourly", "Hourly", "DataBlock">>,
   <<"daily", "Daily", "DataBlock">>,
   <<"alerts", "Alerts", "[]Alert">>,
   <<"flags", "Flags", "Flags">>>>

StructTags(T) ==
  CASE T = "DataPoint" -> DataPointTags
    [] T = "DataBlock" -> DataBlockTags
    [] T = "Alert" -> AlertTags
    [] T = "Flags" -> FlagsTags
    [] T = "Forecast" -> ForecastTags

IsSlice(T) == T \in {"[]DataPoint", "[]Alert", "[]string"}
ElemOf(T) ==
  CASE T = "[]DataPoint" -> "DataPoint" [] T = "[]Alert" -> "Alert" [] T = "[]string" -> "string"

FieldType(T, g) ==
  LET F == StructTags(T) IN F[CHOOSE i \in 1..Len(F) : F[i][2] = g][3]

\* A JSON key is its decoded text, each non-ASCII character written as the
\* six characters \uXXXX (lower-case hex). encoding/json matches a key
\* against a tag up to case as bytes.EqualFold does (foldFunc /
\* equalFoldRight up to Go 1.20, foldName / foldRune, the least rune of the
\* unicode.SimpleFold orbit, from Go 1.21): ASCII letters fold to one case,
\* U+017F (long s) to s and U+212A (Kelvin sign) to k; every other non-ASCII
\* character folds to no ASCII letter and stays as it is.
AsciiUpper == "ABCDEFGHIJKLMNOPQRSTUVWXYZ"
AsciiLower == "abcdefghijklmnopqrstuvwxyz"
LowerOf == [c \in {SubSeq(AsciiUpper, i, i) : i \in 1..26} |->
              LET i == CHOOSE i \in 1..26 : SubSeq(AsciiUpper, i, i) = c
              IN SubSeq(AsciiLower, i, i)]
LowerChar(c) == IF c \in DOMAIN LowerOf THEN LowerOf[c] ELSE c
FoldRune(r) ==
  CASE r = "\\u017f" -> "s"
    [] r = "\\u212a" -> "k"
    [] OTHER -> r
RECURSIVE Fold(_)
Fold(k) ==
  IF Len(k) = 0 THEN ""
  ELSE IF Len(k) >= 6 /\ SubSeq(k, 1, 2) = "\\u"
  THEN FoldRune(SubSeq(k, 1, 6)) \o Fold(SubSeq(k, 7, Len(k)))
  ELSE LowerChar(SubSeq(k, 1, 1)) \o Fold(SubSeq(k, 2, Len(k)))

\* The folded tags of each struct, in field order.
FoldedTags ==
  [T \in {"DataPoint", "DataBlock", "Alert", "Flags", "Forecast"} |->
     [i \in 1..Len(StructTags(T)) |-> Fold(StructTags(T)[i][1])]]

\* The field a JSON key fills: the field whose tag is the key, else the first
\* field whose tag equals it up to case, else none ("").
FieldFor(T, k) ==
  LET F == StructTags(T)
      exact == {i \in 1..Len(F) : F[i][1] = k}
      fk == Fold(k)
      folded == {i \in 1..Len(F) : FoldedTags[T][i] = fk}
      first(S) == CHOOSE i \in S : \A m \in S : i <= m
  IN IF exact /= {} THEN F[first(exact)][2]
     ELSE IF folded /= {} THEN F[first(folded)][2]
     ELSE ""

\* Go values: numbers, strings, structs (records by Go field name) and slices
\* as their length and backing array.
RECURSIVE Zero(_)
Zero(T) ==
  CASE T \in {"int", "float"} -> 0
    [] T = "string" -> ""
    [] IsSlice(T) -> [len |-> 0, arr |-> << >>]
    [] OTHER -> LET F == StructTags(T) IN
                [g \in {F[i][2] : i \in 1..Len(F)} |-> Zero(FieldType(T, g))]

\* The value a Go program sees: each slice cut to its length.
RECURSIVE Visible(_, _)
Visible(T, v) ==
  CASE T \in {"int", "float", "string"} -> v
    [] IsSlice(T) -> [i \in 1..v.len |-> Visible(ElemOf(T), v.arr[i])]
    [] OTHER -> [g \in DOMAIN v |-> Visible(FieldType(T, g), v[g])]

\* json.Unmarshal of a JSON value into the current value cur of type T.
\* null empties a slice and leaves other values as they are; a value of the
\* wrong JSON type is an UnmarshalTypeError and leaves cur; decoding goes on
\* after an error. An array decodes its i-th element into the slice's i-th
\* backing element (an earlier value, or zero past the old backing array),
\* and an empty array leaves a new empty slice with no backing array; an
\* object applies its members in order, each to the field its key names,
\* unknown keys being skipped.
RECURSIVE DecodeInto(_, _, _), DecodeElems(_, _, _, _, _), DecodeMembers(_, _, _, _, _)

DecodeInto(T, j, cur) ==
  IF j.t = "null" THEN Dec(TRUE, IF IsSlice(T) THEN Zero(T) ELSE cur)
  ELSE CASE T \in {"int", "float"} ->
              IF j.t = "num" THEN Dec(TRUE, j.n) ELSE Dec(FALSE, cur)
         [] T = "string" ->
              IF j.t = "str" THEN Dec(TRUE, j.s) ELSE Dec(FALSE, cur)
         [] IsSlice(T) ->
              IF j.t = "arr" THEN DecodeElems(ElemOf(T), j.a, 1, cur, TRUE)
              ELSE Dec(FALSE, cur)
         [] OTHER ->
              IF j.t = "obj" THEN DecodeMembers(T, j.o, 1, cur, TRUE)
              ELSE Dec(FALSE, cur)

\* An array decoder that fills the slice from the last element backwards.
DecodeElemsReversed(E, items, i, s, ok) ==
  IF i > Len(items)
  THEN Dec(ok, IF Len(items) = 0 THEN [len |-> 0, arr |-> << >>]
               ELSE [len |-> Len(items), arr |-> s.arr])
  ELSE LET base == IF i <= Len(s.arr) THEN s.arr[i] ELSE Zero(E)
           r == DecodeInto(E, items[Len(items) - i + 1], base)
           arr2 == IF i <= Len(s.arr) THEN [s.arr EXCEPT ![i] = r.v] ELSE Append(s.arr, r.v)
       IN DecodeElems(E, items, i + 1, [len |-> s.len, arr |-> arr2], ok /\ r.ok)

DecodeElems(E, items, i, s, ok) ==
  IF i > Len(items)
  THEN Dec(ok, IF Len(items) = 0 THEN [len |-> 0, arr |-> << >>]
               ELSE [len |-> Len(items), arr |-> s.arr])
  ELSE LET base == IF i <= Len(s.arr) THEN s.arr[i] ELSE Zero(E)
           r == DecodeInto(E, items[i], base)
           arr2 == IF i <= Len(s.arr) THEN [s.arr EXCEPT ![i] = r.v] ELSE Append(s.arr, r.v)
       IN DecodeElems(E, items, i + 1, [len |-> s.len, arr |-> arr2], ok /\ r.ok)

DecodeMembers(T, mem, i, cur, ok) ==
  IF i > Len(mem) THEN Dec(ok, cur)
  ELSE LET g == FieldFor(T, mem[i][1]) IN
       IF g = "" THEN DecodeMembers(T, mem, i + 1, cur, ok)
       ELSE LET r == DecodeInto(FieldType(T, g), mem[i][2], cur[g])
            IN DecodeMembers(T, mem, i + 1, [cur EXCEPT ![g] = r.v], ok /\ r.ok)

ZeroDataPoint == Visible("DataPoint", Zero("DataPoint"))
ZeroDataBlock == Visible("DataBlock", Zero("DataBlock"))
ZeroAlert == Visible("Alert", Zero("Alert"))
ZeroForecast == Visible("Forecast", Zero("Forecast"))

\* Unmarshal into a fresh Forecast: the decoded value as the program sees it.
ZeroForecastValue == Zero("Forecast")
DecodeForecast(j) ==
  LET r == DecodeInto("Forecast", j, ZeroForecastValue) IN Dec(r.ok, Visible("Forecast", r.v))

\* fromJSON: json.Unmarshal into a fresh Forecast; on any error the result is
\* nil and the error. A body that is not JSON text is a syntax error.
fromJSON(body) ==
  IF ~body.valid THEN [ok |-> FALSE, err |-> "syntax"]
  ELSE LET r == DecodeForecast(body.json)
       IN IF r.ok THEN [ok |-> TRUE, forecast |-> r.v]
                  ELSE [ok |-> FALSE, err |-> "type"]

\* ---------------------------------------------------------------------
\* strconv.Atoi on the X-Forecast-API-Calls header value
\* ---------------------------------------------------------------------

\* A header value is a sequence of characters; a missing header reads as "".
DigitVal(c) ==
  CASE c = "0" -> 0 [] c = "1" -> 1 [] c = "2" -> 2 [] c = "3" -> 3
    [] c = "4" -> 4 [] c = "5" -> 5 [] c = "6" -> 6 [] c = "7" -> 7
    [] c = "8" -> 8 [] c = "9" -> 9 [] OTHER -> -1

RECURSIVE AtoiDigits(_, _)
AtoiDigits(s, acc) ==
  IF s = << >> THEN [ok |-> TRUE, v |-> acc]
  ELSE IF DigitVal(Head(s)) < 0 THEN [ok |-> FALSE, v |-> 0]
  ELSE AtoiDigits(Tail(s), acc * 10 + DigitVal(Head(s)))

\* A strconv.Atoi that drops the sign.
AtoiNoSign(s) ==
  IF s = << >> THEN [ok |-> FALSE, v |-> 0]
  ELSE IF Head(s) \in {"+", "-"}
       THEN IF Tail(s) = << >> THEN [ok |-> FALSE, v |-> 0]
            ELSE AtoiDigits(Tail(s), 0)
       ELSE AtoiDigits(s, 0)

Atoi(s) ==
  IF s = << >> THEN [ok |-> FALSE, v |-> 0]
  ELSE IF Head(s) \in {"+", "-"}
       THEN IF Tail(s) = << >> THEN [ok |-> FALSE, v |-> 0]
            ELSE LET r == AtoiDigits(Tail(s), 0)
                 IN [ok |-> r.ok, v |-> IF Head(s) = "-" THEN -r.v ELSE r.v]
       ELSE AtoiDigits(s, 0)

\* ---------------------------------------------------------------------
\* HTTP outcomes seen by Get
\* ---------------------------------------------------------------------

MaxHeaderLen == 2
HeaderChars == {"1", "7", "-"}
Headers == UNION {[1..n -> HeaderChars] : n \in 0..MaxHeaderLen}
Statuses == {200, 500}

\* Response bodies: the raw text and, when the text is JSON, its value.
ErrorBody == [text |-> "A Server Error Occurred.", valid |-> FALSE, json |-> Null]
EmptyBody == [text |-> "", valid |-> FALSE, json |-> Null]
EmptyJSONBody == [text |-> "{}", valid |-> TRUE, json |-> Obj(EmptyObj)]
ForecastBody ==
  [text |-> "{\"latitude\":41,\"alerts\":[{\"title\":\"a\"},{\"title\":\"b\",\"expires\":5},{\"title\":\"c\"}]}",
   valid |-> TRUE,
   json |-> Obj(<< <<"latitude", Num(41)>>,
                   <<"alerts", Arr(<< Obj(<< <<"title", Str("a")>> >>),
                                      Obj(<< <<"title", Str("b")>>, <<"expires", Num(5)>> >>),
                                      Obj(<< <<"title", Str("c")>> >>) >>)>> >>)]
MistypedBody == [text |-> "{\"latitude\":41,\"timezone\":7}", valid |-> TRUE,
                 json |-> Obj(<< <<"latitude", Num(41)>>, <<"timezone", Num(7)>> >>)]
Bodies == {ErrorBody, EmptyBody, EmptyJSONBody, ForecastBody, MistypedBody}

\* ---------------------------------------------------------------------
\* ForecastRequest.Get
\* ---------------------------------------------------------------------

NoError == [kind |-> "nil", msg |-> ""]

Response(forecast, count, error) ==
  [Forecast |-> forecast, APICallCount |-> count, Error |-> error]

\* A Get that keeps the partly decoded Forecast when decoding fails.
GetResultKeepsPartial(f, transport, readOk, status, header, body) ==
  LET u == URL(f) IN
  IF ~u.ok
  THEN [resp |-> Response(ZeroForecast, 0, [kind |-> "url", msg |-> u.err]), gets |-> 0]
  ELSE IF transport = "err"
  THEN [resp |-> Response(ZeroForecast, 0, [kind |-> "transport", msg |-> "dial"]), gets |-> 1]
  ELSE IF ~readOk
  THEN [resp |-> Response(ZeroForecast, 0, [kind |-> "read", msg |-> "read"]), gets |-> 1]
  ELSE IF status >= 400
  THEN [resp |-> Response(ZeroForecast, 0, [kind |-> "api", msg |-> body.text]), gets |-> 1]
  ELSE LET a == Atoi(header)
           count == IF a.ok THEN a.v ELSE 0
           d == fromJSON(body)
       IN IF ~d.ok
          THEN [resp |-> Response(DecodeForecast(body.json).v,
                                  count, [kind |-> "decode", msg |-> d.err]), gets |-> 1]
          ELSE [resp |-> Response(d.forecast, count, NoError), gets |-> 1]

\* A Get that decodes the body of an error status too.
GetResultDecodesErrors(f, transport, readOk, status, header, body) ==
  LET u == URL(f) IN
  IF ~u.ok
  THEN [resp |-> Response(ZeroForecast, 0, [kind |-> "url", msg |-> u.err]), gets |-> 0]
  ELSE IF transport = "err"
  THEN [resp |-> Response(ZeroForecast, 0, [kind |-> "transport", msg |-> "dial"]), gets |-> 1]
  ELSE IF ~readOk
  THEN [resp |-> Response(ZeroForecast, 0, [kind |-> "read", msg |-> "read"]), gets |-> 1]
  ELSE LET a == Atoi(header)
           count == IF a.ok THEN a.v ELSE 0
           d == fromJSON(body)
       IN IF status >= 400
          THEN [resp |-> Response(IF d.ok THEN d.forecast ELSE ZeroForecast, 0,
                                  [kind |-> "api", msg |-> body.text]), gets |-> 1]
          ELSE IF ~d.ok
          THEN [resp |-> Response(ZeroForecast, count, [kind |-> "decode", msg |-> d.err]), gets |-> 1]
          ELSE [resp |-> Response(d.forecast, count, NoError), gets |-> 1]

\* A Get that retries once after a transport error.
GetResultRetries(f, transport, readOk, status, header, body) ==
  LET u == URL(f) IN
  IF ~u.ok
  THEN [resp |-> Response(ZeroForecast, 0, [kind |-> "url", msg |-> u.err]), gets |-> 0]
  ELSE IF transport = "err"
  THEN [resp |-> Response(ZeroForecast, 0, [kind |-> "transport", msg |-> "dial"]), gets |-> 2]
  ELSE IF ~readOk
  THEN [resp |-> Response(ZeroForecast, 0, [kind |-> "read", msg |-> "read"]), gets |-> 1]
  ELSE IF status >= 400
  THEN [resp |-> Response(ZeroForecast, 0, [kind |-> "api", msg |-> body.text]), gets |-> 1]
  ELSE LET a == Atoi(header)
           count == IF a.ok THEN a.v ELSE 0
           d == fromJSON(body)
       IN IF ~d.ok
          THEN [resp |-> Response(ZeroForecast, count, [kind |-> "decode", msg |-> d.err]), gets |-> 1]
          ELSE [resp |-> Response(d.forecast, count, NoError), gets |-> 1]

\* The response of Get and the number of HTTP GETs it issued, given the
\* transport outcome, whether reading the body succeeded, the status code,
\* the call-count header and the body.
\* A Get that reads the call-count header before checking the status.
GetResultCountsErrors(f, transport, readOk, status, header, body) ==
  LET u == URL(f) IN
  IF ~u.ok
  THEN [resp |-> Response(ZeroForecast, 0, [kind |-> "url", msg |-> u.err]), gets |-> 0]
  ELSE IF transport = "err"
  THEN [resp |-> Response(ZeroForecast, 0, [kind |-> "transport", msg |-> "dial"]), gets |-> 1]
  ELSE IF ~readOk
  THEN [resp |-> Response(ZeroForecast, 0, [kind |-> "read", msg |-> "read"]), gets |-> 1]
  ELSE LET a == Atoi(header)
           count == IF a.ok THEN a.v ELSE 0
           d == fromJSON(body)
       IN IF status >= 400
          THEN [resp |-> Response(ZeroForecast, count, [kind |-> "api", msg |-> body.text]), gets |-> 1]
          ELSE IF ~d.ok
          THEN [resp |-> Response(ZeroForecast, count, [kind |-> "decode", msg |-> d.err]), gets |-> 1]
          ELSE [resp |-> Response(d.forecast, count, NoError), gets |-> 1]

GetResult(f, transport, readOk, status, header, body) ==
  LET u == URL(f) IN
  IF ~u.ok
  THEN [resp |-> Response(ZeroForecast, 0, [kind |-> "url", msg |-> u.err]), gets |-> 0]
  ELSE IF transport = "err"
  THEN [resp |-> Response(ZeroForecast, 0, [kind |-> "transport", msg |-> "dial"]), gets |-> 1]
  ELSE IF ~readOk
  THEN [resp |-> Response(ZeroForecast, 0, [kind |-> "read", msg |-> "read"]), gets |-> 1]
  ELSE IF status >= 400
  THEN [resp |-> Response(ZeroForecast, 0, [kind |-> "api", msg |-> body.text]), gets |-> 1]
  ELSE LET a == Atoi(header)
           count == IF a.ok THEN a.v ELSE 0
           d == fromJSON(body)
       IN IF ~d.ok
          THEN [resp |-> Response(ZeroForecast, count, [kind |-> "decode", msg |-> d.err]), gets |-> 1]
          ELSE [resp |-> Response(d.forecast, count, NoError), gets |-> 1]

\* ---------------------------------------------------------------------
\* State machine of one ForecastRequest and the calls made on it
\* ---------------------------------------------------------------------

VARIABLES
  req,       \* the *ForecastRequest
  ret,       \* the object returned by the last setter
  op,        \* the last operation called
  lastLang,  \* argument of the last WithLang, or "none"
  lastUnits, \* argument of the last WithUnits, or "none"
  lastTime,  \* <<argument of the last WithTime>>, or << >>
  url,       \* result of the last URL() call, or NotCalled
  resp,      \* result of the last Get() call, or NotCalled
  gets,      \* HTTP GETs issued by the last Get() call
  env        \* HTTP outcome the last Get() call met

vars == <<req, ret, op, lastLang, lastUnits, lastTime, url, resp, gets, env>>

VARIABLES
  wb,   \* WindBearing of the DataPoint
  dir,  \* result of the last WindDirection() call, or "?"
  at0   \* result of WindDirection() at bearing 0, or "?" before it was called

windVars == <<wb, dir, at0>>

VARIABLES
  payload,  \* the JSON value of the response body
  decoded   \* result of fromJSON on it, or NotCalled

decodeVars == <<payload, decoded>>

ReqId == "r"
NotCalled == [called |-> FALSE]

Init ==
  /\ \E k \in Keys, lat \in Lats, lng \in Lngs : req = MakeRequest(k, lat, lng)
  /\ ret = "none"
  /\ op = "MakeRequest"
  /\ lastLang = "none"
  /\ lastUnits = "none"
  /\ lastTime = << >>
  /\ url = NotCalled
  /\ resp = NotCalled
  /\ gets = 0
  /\ env = NotCalled

\* url, resp, gets and env observe only the call just made.
Cleared == url' = NotCalled /\ resp' = NotCalled /\ gets' = 0 /\ env' = NotCalled

WithBaseURL ==
  \E b \in BaseURLs :
    /\ req' = [req EXCEPT !.baseURL = b]
    /\ ret' = ReqId
    /\ op' = "WithBaseURL"
    /\ Cleared
    /\ UNCHANGED <<lastLang, lastUnits, lastTime>>
    /\ UNCHANGED <<windVars, decodeVars>>

WithTime ==
  \E t \in Times :
    /\ req' = [req EXCEPT !.Time = t]
    /\ ret' = ReqId
    /\ op' = "WithTime"
    /\ lastTime' = <<t>>
    /\ Cleared
    /\ UNCHANGED <<lastLang, lastUnits>>
    /\ UNCHANGED <<windVars, decodeVars>>

\* A WithLang that also resets the units to the default.
WithLangResetsUnits ==
  \E l \in Langs :
    /\ req' = [req EXCEPT !.Lang = l, !.Units = US]
    /\ ret' = ReqId
    /\ op' = "WithLang"
    /\ lastLang' = l
    /\ Cleared
    /\ UNCHANGED <<lastUnits, lastTime>>
    /\ UNCHANGED <<windVars, decodeVars>>

WithLang ==
  \E l \in Langs :
    /\ req' = [req EXCEPT !.Lang = l]
    /\ ret' = ReqId
    /\ op' = "WithLang"
    /\ lastLang' = l
    /\ Cleared
    /\ UNCHANGED <<lastUnits, lastTime>>
    /\ UNCHANGED <<windVars, decodeVars>>

WithUnits ==
  \E u \in UnitsSet :
    /\ req' = [req EXCEPT !.Units = u]
    /\ ret' = ReqId
    /\ op' = "WithUnits"
    /\ lastUnits' = u
    /\ Cleared
    /\ UNCHANGED <<lastLang, lastTime>>
    /\ UNCHANGED <<windVars, decodeVars>>

CallURL ==
  /\ url' = [called |-> TRUE] @@ URL(req)
  /\ op' = "URL"
  /\ resp' = NotCalled /\ gets' = 0 /\ env' = NotCalled
  /\ UNCHANGED <<req, ret, lastLang, lastUnits, lastTime>>
  /\ UNCHANGED <<windVars, decodeVars>>

\* The HTTP outcomes Get can meet: the transport may fail, reading the body
\* may fail, otherwise a status code, the call-count header and the body.
\* Parts that Get never reaches are "-", 0 or empty.
Outcomes(urlOk) ==
  IF ~urlOk
  THEN {[transport |-> "-", readOk |-> FALSE, status |-> 0, header |-> << >>, body |-> EmptyBody]}
  ELSE {[transport |-> "err", readOk |-> FALSE, status |-> 0, header |-> << >>, body |-> EmptyBody],
        [transport |-> "ok", readOk |-> FALSE, status |-> 0, header |-> << >>, body |-> EmptyBody]}
       \cup
       {[transport |-> "ok", readOk |-> TRUE, status |-> st, header |-> h, body |-> b] :
          st \in {x \in Statuses : x >= 400}, h \in Headers, b \in Bodies}
       \cup
       {[transport |-> "ok", readOk |-> TRUE, status |-> st, header |-> h, body |-> b] :
          st \in {x \in Statuses : x < 400}, h \in Headers, b \in Bodies}

Get ==
  \E e \in Outcomes(URL(req).ok) :
    LET r == GetResult(req, e.transport, e.readOk, e.status, e.header, e.body) IN
    /\ resp' = [called |-> TRUE] @@ r.resp
    /\ gets' = r.gets
    /\ env' = [called |-> TRUE] @@ e
    /\ op' = "Get"
    /\ url' = NotCalled
    /\ UNCHANGED <<req, ret, lastLang, lastUnits, lastTime>>
    /\ UNCHANGED <<windVars, decodeVars>>


\* ---------------------------------------------------------------------
\* Properties of URL()
\* ---------------------------------------------------------------------

\* The pieces of the rendered path that follow the key.
AfterKey(u) == SubSeq(u.path, 4, Len(u.path))
CommaCount(sq) == Cardinality({i \in 1..Len(sq) : sq[i] = ","})
LastPiece(u) == u.path[Len(u.path)]

\* C1: with the time never set (still the sentinel), the path after the key
\* is {lat},{lng}: two comma-separated segments; after WithTime(t) with t > 0
\* it is {lat},{lng},t: one more segment, equal to t.
C1_TimeSegment ==
  (url.called /\ url.ok) =>
    /\ lastTime = << >> =>
         CommaCount(AfterKey(url)) = 1 /\ LastPiece(url) = FormatFloat(req.Lng)
    /\ (lastTime /= << >> /\ lastTime[1] > 0) =>
         CommaCount(AfterKey(url)) = 2 /\ LastPiece(url) = ToString(lastTime[1])

C1_Witness == url.called /\ url.ok /\ lastTime /= << >> /\ lastTime[1] > 0

\* C2: whenever the time differs from the sentinel -1 that MakeRequest stores
\* (0 included), URL() appends ",{time}" to the path.
C2_NonSentinelTimeAppended ==
  (url.called /\ url.ok /\ req.Time /= -1) =>
    CommaCount(AfterKey(url)) = 2 /\ LastPiece(url) = FormatInt(req.Time)

\* The values of one query key, in order.
QueryValues(u, k) ==
  LET idx == {i \in 1..Len(u.query) : u.query[i][1] = k}
  IN [j \in 1..Cardinality(idx) |->
        u.query[CHOOSE i \in idx : Cardinality({m \in idx : m <= i}) = j][2]]
FirstIndex(u, k) == CHOOSE i \in 1..Len(u.query) :
                      u.query[i][1] = k /\ \A m \in 1..(i - 1) : u.query[m][1] /= k
ExpectedLang == IF lastLang = "none" THEN "en" ELSE lastLang
ExpectedUnits == IF lastUnits = "none" THEN "us" ELSE lastUnits

\* Each setter assigns only its own field and returns the request itself.
SetterFrame ==
  /\ op' = "WithLang" => req' = [req EXCEPT !.Lang = lastLang'] /\ ret' = ReqId
  /\ op' = "WithUnits" => req' = [req EXCEPT !.Units = lastUnits'] /\ ret' = ReqId

\* C3 (as stated): the query holds exactly one lang, equal to the last language
\* set (default en), and exactly one units, equal to the last units set
\* (default us), lang before units; each setter changes only its own field
\* and returns the same request.
C3_QueryOriginal ==
  /\ [] ((url.called /\ url.ok) =>
           /\ QueryValues(url, "lang") = <<ExpectedLang>>
           /\ QueryValues(url, "units") = <<ExpectedUnits>>
           /\ FirstIndex(url, "lang") < FirstIndex(url, "units"))
  /\ [][SetterFrame]_vars

\* C3 (amended): the base URL's own lang/units query values are kept, and the
\* setters' values follow them: the last lang value is the last language set
\* (default en), the last units value the last units set (default us), each
\* key carries exactly one value more than the base URL's query, and lang
\* comes before units. With no lang/units in the base URL (the default base
\* URL), there is exactly one of each.
BaseQueryValues(k) ==
  LET q == ParseURL(req.baseURL).query IN
  Cardinality({i \in 1..Len(q) : q[i][1] = k})
C3_QueryAmended ==
  /\ [] ((url.called /\ url.ok) =>
           LET L == QueryValues(url, "lang")
               U == QueryValues(url, "units")
           IN /\ Len(L) = BaseQueryValues("lang") + 1
              /\ Len(U) = BaseQueryValues("units") + 1
              /\ L[Len(L)] = ExpectedLang
              /\ U[Len(U)] = ExpectedUnits
              /\ FirstIndex(url, "lang") < FirstIndex(url, "units"))
  /\ [][SetterFrame]_vars

C3_Witness == url.called /\ url.ok /\ lastLang /= "none" /\ lastUnits /= "none"
              /\ BaseQueryValues("lang") = 1

\* ---------------------------------------------------------------------
\* Properties of Get()
\* ---------------------------------------------------------------------

ErrorSet(r) == r.Error.kind /= "nil"

\* C4: every failure (URL, transport, body read, status >= 400, decode) comes
\* back as a response with an error, and a response with an error carries
\* the zero Forecast.
C4_ErrorExcludesForecast ==
  resp.called =>
    /\ ErrorSet(resp) => resp.Forecast = ZeroForecast
    /\ (~URL(req).ok \/ env.transport = "err" \/ ~env.readOk \/ env.status >= 400
        \/ ~fromJSON(env.body).ok) => ErrorSet(resp)

C4_Witness == resp.called /\ env.readOk /\ env.status < 400 /\ ErrorSet(resp)
              /\ env.body = MistypedBody

\* C5: on a status >= 400 the error message is the raw body text, the body is
\* not decoded and the Forecast is zero.
C5_StatusErrorIsBody ==
  (resp.called /\ env.readOk /\ env.status >= 400) =>
    /\ ErrorSet(resp)
    /\ resp.Error.msg = env.body.text
    /\ resp.Forecast = ZeroForecast

C5_Witness == resp.called /\ env.status = 500 /\ env.body = ErrorBody

\* Decimal integer text: an optional sign and at least one digit; its value
\* as the signed sum of digit * 10^position.
IsDigit(c) == c \in {"0", "1", "2", "3", "4", "5", "6", "7", "8", "9"}
Signed(h) == Len(h) > 0 /\ h[1] \in {"+", "-"}
DigitsOf(h) == IF Signed(h) THEN Tail(h) ELSE h
IsIntText(h) == Len(DigitsOf(h)) > 0 /\ \A i \in 1..Len(DigitsOf(h)) : IsDigit(DigitsOf(h)[i])
RECURSIVE SumDigits(_)
SumDigits(d) == IF d = << >> THEN 0
                ELSE DigitVal(d[1]) * (10 ^ (Len(d) - 1)) + SumDigits(Tail(d))
IntValue(h) == IF Signed(h) /\ h[1] = "-" THEN -SumDigits(DigitsOf(h)) ELSE SumDigits(DigitsOf(h))

\* C6: on a status < 400 the call count is the header's integer when the
\* header is an integer, 0 otherwise, and the header never causes an error:
\* a decodable body gives a response without error.
C6_CallCount ==
  (resp.called /\ env.readOk /\ env.status < 400) =>
    /\ IsIntText(env.header) => resp.APICallCount = IntValue(env.header)
    /\ ~IsIntText(env.header) => resp.APICallCount = 0
    /\ fromJSON(env.body).ok => ~ErrorSet(resp) /\ resp.Forecast = fromJSON(env.body).forecast

C6_Witness == resp.called /\ env.status < 400 /\ env.header = <<"-", "7">>
              /\ resp.APICallCount = -7 /\ ~ErrorSet(resp)

\* C7: a Get issues at most one HTTP GET; when the base URL does not parse it
\* issues none and returns only the error, every other field zero.
C7_SingleGet ==
  resp.called =>
    /\ gets <= 1
    /\ ~URL(req).ok => gets = 0 /\ ErrorSet(resp)
                       /\ resp.Forecast = ZeroForecast /\ resp.APICallCount = 0

C7_Witness == resp.called /\ ~URL(req).ok


\* ---------------------------------------------------------------------
\* DataPoint.WindDirection
\* ---------------------------------------------------------------------

BelowZero == 1
MaxBearing == 361
Bearings == (0 - BelowZero)..MaxBearing

\* A WindDirection whose N test stops below 360.
WindDirectionBelow360(b) ==
  LET n == IF (b > 293 /\ b < 360) \/ b < 67 THEN "N" ELSE ""
      s == IF b < 247 /\ b > 113 THEN "S" ELSE ""
      e == IF b > 22 /\ b < 157 THEN "E" ELSE ""
      w == IF b < 337 /\ b > 203 THEN "W" ELSE ""
  IN n \o s \o e \o w

\* A WindDirection that appends E before S.
WindDirectionESOrder(b) ==
  LET n == IF b > 293 \/ b < 67 THEN "N" ELSE ""
      s == IF b < 247 /\ b > 113 THEN "S" ELSE ""
      e == IF b > 22 /\ b < 157 THEN "E" ELSE ""
      w == IF b < 337 /\ b > 203 THEN "W" ELSE ""
  IN n \o e \o s \o w

\* A WindDirection whose E test starts above 67.
WindDirectionEFrom67(b) ==
  LET n == IF b > 293 \/ b < 67 THEN "N" ELSE ""
      s == IF b < 247 /\ b > 113 THEN "S" ELSE ""
      e == IF b > 67 /\ b < 157 THEN "E" ELSE ""
      w == IF b < 337 /\ b > 203 THEN "W" ELSE ""
  IN n \o s \o e \o w

WindDirection(b) ==
  LET n == IF b > 293 \/ b < 67 THEN "N" ELSE ""
      s == IF b < 247 /\ b > 113 THEN "S" ELSE ""
      e == IF b > 22 /\ b < 157 THEN "E" ELSE ""
      w == IF b < 337 /\ b > 203 THEN "W" ELSE ""
  IN n \o s \o e \o w


WindInit == wb \in Bearings /\ dir = "?" /\ at0 = "?"

\* Assigning dp.WindBearing.
SetBearing ==
  /\ \E b \in Bearings : wb' = b /\ dir' = "?" /\ UNCHANGED at0
  /\ UNCHANGED <<vars, decodeVars>>

CallWindDirection ==
  /\ dir' = WindDirection(wb)
  /\ at0' = IF wb = 0 THEN WindDirection(wb) ELSE at0
  /\ UNCHANGED wb
  /\ UNCHANGED <<vars, decodeVars>>


\* The letters in the order N, S, E, W whose strict tests hold, joined.
LetterOrder == <<"N", "S", "E", "W">>
Holds(x, b) ==
  CASE x = "N" -> b > 293 \/ b < 67
    [] x = "S" -> 113 < b /\ b < 247
    [] x = "E" -> 22 < b /\ b < 157
    [] x = "W" -> 203 < b /\ b < 337
RECURSIVE JoinLetters(_)
JoinLetters(sq) == IF sq = << >> THEN "" ELSE Head(sq) \o JoinLetters(Tail(sq))
ExpectedLabel(b) == JoinLetters(SelectSeq(LetterOrder, LAMBDA x : Holds(x, b)))

\* C8: WindDirection is the concatenation, in the order N, S, E, W, of the
\* letters whose strict tests hold; 147 gives SE, 0 gives N, 336 gives NW, and
\* the label is never SN or WE.
C8_WindLabel ==
  dir /= "?" =>
    /\ dir = ExpectedLabel(wb)
    /\ dir \notin {"SN", "WE"}
    /\ wb = 147 => dir = "SE"
    /\ wb = 0 => dir = "N"
    /\ wb = 336 => dir = "NW"

C8_Witness == dir /= "?" /\ wb = 147

\* C9 (as stated): bearing 0 and bearing 360 get different labels.
C9_ZeroVs360Original == (dir /= "?" /\ wb = 360 /\ at0 /= "?") => dir /= at0

\* C9 (amended): bearing 0 and bearing 360 both get the label N.
C9_ZeroVs360Amended == (dir /= "?" /\ wb = 360 /\ at0 /= "?") => dir = at0 /\ dir = "N"

C9_Witness == dir /= "?" /\ wb = 360 /\ at0 /= "?"

\* ---------------------------------------------------------------------
\* fromJSON on forecast payloads
\* ---------------------------------------------------------------------

MaxAlerts == 3
MaxData == 2

Absent == [t |-> "absent"]
AlertObjs == {Obj(EmptyObj), Obj(<< <<"title", Str("a")>> >>),
              Obj(<< <<"title", Str("b")>>, <<"expires", Num(5)>> >>),
              Obj(<< <<"uri", Num(5)>> >>)}
DataPointObjs == {Obj(EmptyObj), Obj(<< <<"time", Num(1)>> >>),
                  Obj(<< <<"time", Num(2)>>, <<"windBearing", Num(30)>> >>)}
AlertArrays == {Arr(sq) : sq \in UNION {[1..n -> AlertObjs] : n \in 0..MaxAlerts}}
DataArrays == {Arr(sq) : sq \in UNION {[1..n -> DataPointObjs] : n \in 0..MaxData}}

\* Spellings of the alerts key: the tag, capitalised, and with U+017F for s.
AlertsKeys == {"alerts", "Alerts", "alert\\u017f"}

\* Leading members: none, or "latitude" with a number or a value of the
\* wrong JSON type; or, with non-ASCII spellings, "latitude" spelt with
\* U+0131 (dotless i) for i, a key that matches no field, or flags whose
\* darksky-unavailable key is spelt with U+212A for k.
HeadMembers ==
  {<< >>, << <<"latitude", Num(41)>> >>, << <<"latitude", Str("x")>> >>}
FoldedHeadMembers ==
  {<< <<"lat\\u0131tude", Num(41)>> >>,
   << <<"flags", Obj(<< <<"dar\\u212asky-unavailable", Str("y")>> >>)>> >>}

\* Payload objects: the leading members hd, the alerts member al (if any) and
\* the hourly member (if present). Keys with ASCII spellings combine with
\* every alerts and hourly member; keys spelt with non-ASCII characters
\* combine with every alerts array under the U+017F spelling and a present
\* or absent empty hourly block.
MkObj(hd, al, hr) ==
  LET m3 == IF hr = Absent THEN << >> ELSE << <<"hourly", hr>> >>
  IN Obj(hd \o al \o m3)
Payloads ==
  {MkObj(hd, al, hr) :
     hd \in HeadMembers,
     al \in {<< >>} \cup {<< <<k, x>> >> : k \in {"alerts", "Alerts"}, x \in AlertArrays},
     hr \in {Absent, Obj(EmptyObj)} \cup {Obj(<< <<"data", d>> >>) : d \in DataArrays}}
  \cup
  {MkObj(hd, al, hr) :
     hd \in {<< >>} \cup FoldedHeadMembers,
     al \in {<< <<"alert\\u017f", x>> >> : x \in AlertArrays},
     hr \in {Absent, Obj(EmptyObj)}}

DecodeInit == payload \in Payloads /\ decoded = NotCalled

CallFromJSON ==
  /\ decoded' = [called |-> TRUE] @@ fromJSON([text |-> "", valid |-> TRUE, json |-> payload])
  /\ UNCHANGED payload
  /\ UNCHANGED <<vars, windVars>>

\* The key spellings the payloads use for a tag, listed by hand; the member of an object with such a key (the payloads have one at
\* most).
Spellings(tag) ==
  CASE tag = "alerts" -> AlertsKeys
    [] tag = "darksky-unavailable" -> {"darksky-unavailable", "dar\\u212asky-unavailable"}
    [] OTHER -> {tag}
Has(mem, tag) == \E i \in 1..Len(mem) : mem[i][1] \in Spellings(tag)
Val(mem, tag) == mem[CHOOSE i \in 1..Len(mem) : mem[i][1] \in Spellings(tag)][2]
Src(mem, tag) == IF Has(mem, tag) /\ Val(mem, tag).t = "arr" THEN Val(mem, tag).a ELSE << >>
StrOf(mem, tag) == IF Has(mem, tag) /\ Val(mem, tag).t = "str" THEN Val(mem, tag).s ELSE ""
NumOf(mem, tag) == IF Has(mem, tag) /\ Val(mem, tag).t = "num" THEN Val(mem, tag).n ELSE 0
SrcData(p) == IF Has(p.o, "hourly") THEN Src(Val(p.o, "hourly").o, "data") ELSE << >>

\* Every member the payloads use holds a value of its field's JSON type.
WellTyped(p) ==
  /\ Has(p.o, "latitude") => Val(p.o, "latitude").t = "num"
  /\ \A i \in 1..Len(Src(p.o, "alerts")) :
       Has(Src(p.o, "alerts")[i].o, "uri") => Val(Src(p.o, "alerts")[i].o, "uri").t = "str"

\* C10: a well-typed payload decodes without error; Alerts and Hourly.Data
\* have the source arrays' lengths and order (element by element), and every
\* absent field is its zero value.
C10_DecodePreservesArrays ==
  (decoded.called /\ WellTyped(payload)) =>
    /\ decoded.ok
    /\ LET f == decoded.forecast
           sa == Src(payload.o, "alerts")
           sd == SrcData(payload)
       IN /\ Len(f.Alerts) = Len(sa)
          /\ \A i \in 1..Len(sa) :
               f.Alerts[i] = [ZeroAlert EXCEPT !.Title = StrOf(sa[i].o, "title"),
                                               !.Expires = NumOf(sa[i].o, "expires")]
          /\ Len(f.Hourly.Data) = Len(sd)
          /\ \A i \in 1..Len(sd) :
               f.Hourly.Data[i] = [ZeroDataPoint EXCEPT !.Time = NumOf(sd[i].o, "time"),
                                                        !.WindBearing = NumOf(sd[i].o, "windBearing")]
          /\ f.Latitude = NumOf(payload.o, "latitude")
          /\ ~Has(payload.o, "hourly") => f.Hourly = ZeroDataBlock
          /\ f.Hourly.Summary = "" /\ f.Hourly.Icon = ""
          /\ f.Timezone = "" /\ f.Offset = 0 /\ f.Longitude = 0
          /\ f.Currently = ZeroDataPoint /\ f.Minutely = ZeroDataBlock
          /\ f.Daily = ZeroDataBlock
          /\ LET fl == IF Has(payload.o, "flags") THEN Val(payload.o, "flags").o ELSE << >>
             IN f.Flags = [ZeroForecast.Flags EXCEPT
                             !.DarkSkyUnavailable = StrOf(fl, "darksky-unavailable")]

C10_Witness == decoded.called /\ decoded.ok /\ Len(decoded.forecast.Alerts) = 3
               /\ (\E i \in 1..Len(payload.o) : payload.o[i][1] = "alert\\u017f")
               /\ (\E i \in 1..Len(payload.o) : payload.o[i][1] = "lat\\u0131tude")
               /\ decoded.forecast.Latitude = 0
               /\ decoded.forecast.Alerts[1] = decoded.forecast.Alerts[2]

\* ---------------------------------------------------------------------
\* Further properties of WindDirection and Get
\* ---------------------------------------------------------------------

CompassLabels == {"N", "NE", "E", "SE", "S", "SW", "W", "NW"}

\* C11: for a bearing in [0, 360) the label is one of the eight compass labels
\* (never empty); N and S never both hold, nor E and W.
C11_CompassLabel ==
  (dir /= "?" /\ 0 <= wb /\ wb < 360) =>
    /\ dir \in CompassLabels
    /\ ~(Holds("N", wb) /\ Holds("S", wb))
    /\ ~(Holds("E", wb) /\ Holds("W", wb))

C11_Witness == dir /= "?" /\ wb = 67

\* C12: the call count is filled only for status < 400, before decoding: a
\* status >= 400 leaves it 0 whatever the header, and a status < 400 body that
\* fails to decode gives an error with the parsed count kept.
C12_CountBeforeDecode ==
  (resp.called /\ env.readOk) =>
    /\ env.status >= 400 => resp.APICallCount = 0
    /\ (env.status < 400 /\ ~fromJSON(env.body).ok) =>
         /\ ErrorSet(resp)
         /\ resp.APICallCount = IF IsIntText(env.header) THEN IntValue(env.header) ELSE 0

C12_Witness == resp.called /\ env.readOk /\ env.status < 400 /\ ErrorSet(resp)
               /\ resp.APICallCount = 17

\* ---------------------------------------------------------------------
\* Specifications
\* ---------------------------------------------------------------------

allVars == <<vars, windVars, decodeVars>>

AllInit == Init /\ WindInit /\ DecodeInit

Next == WithBaseURL \/ WithTime \/ WithLang \/ WithUnits \/ CallURL \/ Get
        \/ SetBearing \/ CallWindDirection \/ CallFromJSON

Spec == AllInit /\ [][Next]_allVars

\* The state of the parts a specification does not exercise.
IdleWind == wb = 0 /\ dir = "?" /\ at0 = "?"
IdleDecode == payload = MkObj(<< >>, << >>, Absent) /\ decoded = NotCalled

\* The builder and URL() alone.
RequestInit == Init /\ IdleWind /\ IdleDecode
RequestNext == WithBaseURL \/ WithTime \/ WithLang \/ WithUnits \/ CallURL
RequestSpec == RequestInit /\ [][RequestNext]_allVars

\* Get on requests with any base URL.
GetNext == WithBaseURL \/ Get
GetSpec == RequestInit /\ [][GetNext]_allVars

\* WindDirection on a DataPoint.
WindSpecInit == Init /\ WindInit /\ IdleDecode
WindNext == SetBearing \/ CallWindDirection
WindSpec == WindSpecInit /\ [][WindNext]_allVars

\* fromJSON on a response body.
DecodeSpecInit == Init /\ IdleWind /\ DecodeInit
DecodeNext == CallFromJSON
DecodeSpec == DecodeSpecInit /\ [][DecodeNext]_allVars

====
